---- MODULE Spec2Model ----
(***************************************************************************)
(* Model of qa/L0_perf_nomodel/perf_analysis.py: read_results, get_delta,  *)
(* latency_analysis and the __main__ block.                                *)
(*                                                                         *)
(* Python strings are sequences of one-character strings, so that          *)
(* str.split, str.endswith, int(), float() and the lexicographic order of  *)
(* list.sort are computed and not assumed.  A dict is the sequence of its  *)
(* items in insertion order (keys unique).  A float is an exact rational   *)
(* [n, d]; within the values explored the two-decimal rendering of the     *)
(* exact quotient and of the double-precision quotient agree.              *)
(***************************************************************************)
EXTENDS Integers, Sequences, FiniteSets, TLC

VARIABLES
    FLAGS,              \* parsed command line (argparse namespace)
    dirs,               \* the two directories: path -> os.listdir order
    pc,                 \* position of the process
    concurrency,        \* concurrency level requested from read_results
    path,               \* directory read_results is working on
    csvs,               \* read_results: platform -> file
    fileIdx,            \* read_results: next item of csvs.items()
    results,            \* read_results: platform -> {header: value}
    baseline_results,   \* __main__
    undertest_results,  \* __main__
    platIdx,            \* latency_analysis: item of undertest_results
    ordered_names,      \* latency_analysis: rows of the current section
    nameIdx,            \* latency_analysis: next element of ordered_names
    stdout,             \* everything printed so far
    exc,                \* uncaught exception, "none" while running
    args,               \* get_delta call under test: [name, baseline, result]
    ret                 \* what that call produced

vars == <<FLAGS, dirs, pc, concurrency, path, csvs, fileIdx, results,
          baseline_results, undertest_results, platIdx, ordered_names,
          nameIdx, stdout, exc, args, ret>>

-----------------------------------------------------------------------------
(* Bounds *)

\* longest under-test directory listing
MaxFiles == 2

\* longest baseline directory listing
MaxBaselineFiles == 2

\* longest numeric string handed to get_delta on its own
MaxDigits == 2

-----------------------------------------------------------------------------
(* Strings *)

\* the characters in use, in ascending code point order
CodePoints ==
    << "+", "-", ".", "/", "0", "1", "2", "3", "4", "5", "6", "7", "8", "9",
       "<", ">", "C", "I", "L", "M", "S", "_",
       "a", "b", "c", "d", "e", "f", "g", "i", "l", "m", "n", "o", "p",
       "r", "s", "t", "u", "v", "x", "y" >>

Ord(c) == CHOOSE i \in 1..Len(CodePoints) : CodePoints[i] = c

Min(a, b) == IF a < b THEN a ELSE b

\* a < b for Python str
StrLess(a, b) ==
    \E i \in 1..(Min(Len(a), Len(b)) + 1) :
        /\ \A j \in 1..(i - 1) : a[j] = b[j]
        /\ \/ i = Len(a) + 1 /\ i <= Len(b)
           \/ i <= Len(a) /\ i <= Len(b) /\ Ord(a[i]) < Ord(b[i])

\* s.endswith(suffix)
EndsWith(s, suffix) ==
    /\ Len(suffix) <= Len(s)
    /\ SubSeq(s, Len(s) - Len(suffix) + 1, Len(s)) = suffix

\* s.split(sep) for a one-character sep
RECURSIVE Split(_, _)
Split(s, sep) ==
    IF \A i \in 1..Len(s) : s[i] # sep
    THEN << s >>
    ELSE LET k == CHOOSE i \in 1..Len(s) :
                      s[i] = sep /\ \A j \in 1..(i - 1) : s[j] # sep
         IN  << SubSeq(s, 1, k - 1) >> \o Split(SubSeq(s, k + 1, Len(s)), sep)

Digits == {"0", "1", "2", "3", "4", "5", "6", "7", "8", "9"}

DigitVal(c) == Ord(c) - Ord("0")

RECURSIVE DigitsVal(_)
DigitsVal(s) ==
    IF Len(s) = 0 THEN 0
    ELSE 10 * DigitsVal(SubSeq(s, 1, Len(s) - 1)) + DigitVal(s[Len(s)])

RECURSIVE Pow10(_)
Pow10(k) == IF k = 0 THEN 1 ELSE 10 * Pow10(k - 1)

HasSign(s) == Len(s) > 0 /\ s[1] \in {"+", "-"}

Unsigned(s) == IF HasSign(s) THEN Tail(s) ELSE s

SignOf(s) == IF Len(s) > 0 /\ s[1] = "-" THEN -1 ELSE 1

\* int(s) succeeds: an optional sign and one or more digits
IsIntLiteral(s) ==
    /\ Len(Unsigned(s)) > 0
    /\ \A i \in 1..Len(Unsigned(s)) : Unsigned(s)[i] \in Digits

\* int(s)
IntOf(s) == SignOf(s) * DigitsVal(Unsigned(s))

\* float(s) succeeds: an optional sign, digits with at most one point among
\* them, at least one digit
IsFloatLiteral(s) ==
    LET u == Unsigned(s)
    IN  /\ \A i \in 1..Len(u) : u[i] \in Digits \cup {"."}
        /\ Cardinality({i \in 1..Len(u) : u[i] = "."}) <= 1
        /\ \E i \in 1..Len(u) : u[i] \in Digits

\* float(s), as the rational n / d with d > 0
FloatOf(s) ==
    LET u    == Unsigned(s)
        digs == SelectSeq(u, LAMBDA c : c \in Digits)
        dot  == IF \E i \in 1..Len(u) : u[i] = "."
                THEN CHOOSE i \in 1..Len(u) : u[i] = "."
                ELSE Len(u) + 1
    IN  [n |-> SignOf(s) * DigitsVal(digs),
         d |-> Pow10(IF dot > Len(u) THEN 0 ELSE Len(u) - dot)]

-----------------------------------------------------------------------------
(* dict, as the sequence of its items in insertion order *)

EmptyDict == << >>

Keys(d) == {d[i].k : i \in 1..Len(d)}

Has(d, key) == key \in Keys(d)

\* d[key]
Get(d, key) == d[CHOOSE i \in 1..Len(d) : d[i].k = key].v

\* d[key] = value
DictSet(d, key, value) ==
    IF Has(d, key)
    THEN [i \in 1..Len(d) |->
              IF d[i].k = key THEN [k |-> key, v |-> value] ELSE d[i]]
    ELSE Append(d, [k |-> key, v |-> value])

-----------------------------------------------------------------------------
(* Optional values: None is the empty sequence, a value v is << v >> *)

None == << >>

Some(v) == << v >>

-----------------------------------------------------------------------------
(* Program constants *)

CONCURRENCY == <<"C", "o", "n", "c", "u", "r", "r", "e", "n", "c", "y">>

INFERPERSEC == <<"I", "n", "f", "e", "r", "e", "n", "c", "e", "s", "/", "S", "e", "c", "o", "n", "d">>

CsvExt == <<".", "c", "s", "v">>

Underscore == "_"

GREEN == "GREEN"

RED == "RED"

ENDC == "ENDC"

NoneText == <<"<", "n", "o", "n", "e", ">">>

-----------------------------------------------------------------------------
(* Inputs: metric names, cell values and result files *)

LATENCY == <<"L", "a", "t", "e", "n", "c", "y">>

MEMORY == <<"M", "e", "m", "o", "r", "y">>

Header3 == << CONCURRENCY, LATENCY, INFERPERSEC >>

\* the result files of the end-to-end scenario
BaselineGpu ==
    [name |-> <<"g", "p", "u", "_", "r", ".", "c", "s", "v">>, isfile |-> TRUE,
     rows |-> << Header3, << <<"1">>, <<"1", "0">>, <<"1", "0", "0">> >> >>]

UndertestGpu ==
    [name |-> <<"g", "p", "u", "_", "r", ".", "c", "s", "v">>, isfile |-> TRUE,
     rows |-> << Header3, << <<"1">>, <<"8">>, <<"1", "2", "5">> >> >>]

\* a file whose row is shorter than its header
ShortRowFile ==
    [name |-> <<"n", "p", "u", "_", "r", ".", "c", "s", "v">>, isfile |-> TRUE,
     rows |-> << << CONCURRENCY, MEMORY, LATENCY, INFERPERSEC >>,
                 << <<"1">>, <<"5">>, <<"1", "0">> >> >>]

\* a file without the extension
NoExtFile ==
    [name |-> <<"c", "p", "u", "_", "r", ".", "t", "x", "t">>, isfile |-> TRUE,
     rows |-> << Header3, << <<"1">>, <<"1", "0">>, <<"1", "0", "0">> >> >>]

\* entries of an under-test directory: name, whether os.path.isfile holds,
\* rows as csv.reader yields them (a blank line is the empty row)
Library ==
    { UndertestGpu, ShortRowFile, NoExtFile,
      [name |-> <<"g", "p", "u", "_", "s", ".", "c", "s", "v">>, isfile |-> TRUE,
       rows |-> << << CONCURRENCY, MEMORY, INFERPERSEC, LATENCY >>,
                   << <<"2">>, <<"7">>, <<"5", "0">>, <<"2", "0">> >>,
                   << <<"0", "1">>, <<"5">>, <<"9", "0">>, <<"1", "2">> >>,
                   << <<"1">>, <<"6">>, <<"8", "0">>, <<"1", "1">> >> >>],
      [name |-> <<"c", "p", "u", "_", "r", ".", "c", "s", "v">>, isfile |-> TRUE,
       rows |-> << Header3, << <<"1">>, <<"0">>, <<"9", "0">> >>,
                   << <<"2">>, <<"n", "/", "a">>, <<"9", "0">> >> >>],
      [name |-> <<"g", "p", "u", "_", "d", ".", "c", "s", "v">>, isfile |-> FALSE, rows |-> << >>],
      [name |-> <<"t", "p", "u", ".", "c", "s", "v">>, isfile |-> TRUE,
       rows |-> << Header3, << <<"2">>, <<"1", "0">>, <<"1", "0", "0">> >>, << >> >>],
      [name |-> <<"t", "p", "u", "_", "e", ".", "c", "s", "v">>, isfile |-> TRUE, rows |-> << >>],
      [name |-> <<"n", "p", "u", "_", "d", ".", "c", "s", "v">>, isfile |-> TRUE,
       rows |-> << << CONCURRENCY, LATENCY, LATENCY >>,
                   << <<"1">>, <<"1", "0">>, <<"2", "0">>, <<"2", ".", "5">> >>,
                   << <<"x">>, <<"1", "0">>, <<"2", "0">> >> >>],
      [name |-> <<"n", "p", "u", "_", "n", ".", "c", "s", "v">>, isfile |-> TRUE,
       rows |-> << << >>, << <<"1">>, <<"1", "0">> >> >>] }

\* entries of a baseline directory
BaselineLibrary ==
    { BaselineGpu, ShortRowFile,
      [name |-> <<"c", "p", "u", "_", "r", ".", "c", "s", "v">>, isfile |-> TRUE,
       rows |-> << Header3, << <<"1">>, <<"1", "0">>, <<"0">> >>,
                   << <<"2">>, <<"1", "0">>, <<"1", "0", "0">> >> >>] }

\* directory listings: at most n entries, no name twice
Listings(lib, n) ==
    { l \in UNION { [1..k -> lib] : k \in 0..n } :
          \A i, j \in 1..Len(l) : i # j => l[i].name # l[j].name }

\* command lines: --latency without and with --concurrency, and neither
FlagsSet ==
    { [latency |-> TRUE, concurrency |-> None,
       baseline_name |-> "base", undertest_name |-> "test"],
      [latency |-> TRUE, concurrency |-> Some(1),
       baseline_name |-> "base", undertest_name |-> "test"],
      [latency |-> TRUE, concurrency |-> Some(2),
       baseline_name |-> "base", undertest_name |-> "test"],
      [latency |-> FALSE, concurrency |-> None,
       baseline_name |-> "base", undertest_name |-> "test"] }

-----------------------------------------------------------------------------
(* read_results *)

\* the piece after the last underscore is taken
Platform_lastpiece(f) == Split(f, Underscore)[Len(Split(f, Underscore))]

\* platform = f.split('_')[0]
Platform(f) == Split(f, Underscore)[1]

\* the first loop: csvs[platform] = fullpath for every regular .csv file, in
\* listing order
RECURSIVE ListCsvs(_, _, _)
ListCsvs(listing, i, acc) ==
    IF i > Len(listing) THEN acc
    ELSE ListCsvs(listing, i + 1,
             IF listing[i].isfile /\ EndsWith(listing[i].name, CsvExt)
             THEN DictSet(acc, Platform(listing[i].name), listing[i].name)
             ELSE acc)

\* open(fullpath): the rows of the file of that name in the directory
FileRows(listing, f) ==
    listing[CHOOSE i \in 1..Len(listing) : listing[i].name = f].rows

\* the scan without its break: the last matching row is kept
RECURSIVE ScanRows_nobreak(_, _, _, _, _)
ScanRows_nobreak(rows, i, linenum, header_row, conc) ==
    IF i > Len(rows)
    THEN [exc |-> "none", header_row |-> header_row, concurrency_row |-> None]
    ELSE IF linenum = 0
    THEN ScanRows_nobreak(rows, i + 1, linenum + 1, Some(rows[i]), conc)
    ELSE IF Len(rows[i]) = 0
    THEN [exc |-> "IndexError", header_row |-> header_row,
          concurrency_row |-> None]
    ELSE IF ~IsIntLiteral(rows[i][1])
    THEN [exc |-> "ValueError", header_row |-> header_row,
          concurrency_row |-> None]
    ELSE LET rest == ScanRows_nobreak(rows, i + 1, linenum + 1,
                                      header_row, conc)
         IN  IF IntOf(rows[i][1]) = conc /\ rest.exc = "none"
                /\ rest.concurrency_row = None
             THEN [exc |-> "none", header_row |-> header_row,
                   concurrency_row |-> Some(rows[i])]
             ELSE rest

\* the for loop over csv_reader, from row i on: the header row, the
\* concurrency row, and the exception that int(row[0]) raised, if any
RECURSIVE ScanRows(_, _, _, _, _)
ScanRows(rows, i, linenum, header_row, conc) ==
    IF i > Len(rows)
    THEN [exc |-> "none", header_row |-> header_row, concurrency_row |-> None]
    ELSE IF linenum = 0
    THEN ScanRows(rows, i + 1, linenum + 1, Some(rows[i]), conc)
    ELSE IF Len(rows[i]) = 0
    THEN [exc |-> "IndexError", header_row |-> header_row,
          concurrency_row |-> None]
    ELSE IF ~IsIntLiteral(rows[i][1])
    THEN [exc |-> "ValueError", header_row |-> header_row,
          concurrency_row |-> None]
    ELSE IF IntOf(rows[i][1]) = conc
    THEN [exc |-> "none", header_row |-> header_row,
          concurrency_row |-> Some(rows[i])]
    ELSE ScanRows(rows, i + 1, linenum + 1, header_row, conc)

\* for header, result in zip(header_row, concurrency_row): d[header] = result
RECURSIVE ZipDict(_, _, _, _)
ZipDict(header_row, concurrency_row, i, acc) ==
    IF i > Len(header_row) \/ i > Len(concurrency_row) THEN acc
    ELSE ZipDict(header_row, concurrency_row, i + 1,
                 DictSet(acc, header_row[i], concurrency_row[i]))

\* print("warning: unable to parse CSV file {}".format(fullpath))
ParseWarning(dir, f) == [kind |-> "warning_parse", dir |-> dir, file |-> f]

\* what one iteration of the second loop does for the file f of platform:
\* the lines printed, the results afterwards and the exception raised
LoadFile(conc, dir, listing, platform, f, res) ==
    LET r    == ScanRows(FileRows(listing, f), 1, 0, None, conc)
        miss == r.header_row = None \/ r.concurrency_row = None
        out  == IF miss THEN << ParseWarning(dir, f) >> ELSE << >>
    IN  IF r.exc # "none"
        THEN [exc |-> r.exc, out |-> << >>, results |-> res]
        ELSE IF miss
        THEN [exc |-> "TypeError", out |-> out,
              results |-> DictSet(res, platform, EmptyDict)]
        ELSE [exc |-> "none", out |-> out,
              results |-> DictSet(res, platform,
                              ZipDict(r.header_row[1], r.concurrency_row[1],
                                      1, EmptyDict))]

-----------------------------------------------------------------------------
(* get_delta *)

\* every metric taken as lower-is-better
lower_is_better_always(name) == name = name

lower_is_better(name) == name # INFERPERSEC

\* a / b for two floats, b nonzero; the denominator is kept positive
Quotient(a, b) ==
    LET n == a.n * b.d
        d == a.d * b.n
    IN  IF d < 0 THEN [n |-> 0 - n, d |-> 0 - d] ELSE [n |-> n, d |-> d]

\* the float a name's speedup divides by
Divisor(name, baseline, result) ==
    IF lower_is_better(name) THEN FloatOf(result) ELSE FloatOf(baseline)

Speedup(name, baseline, result) ==
    IF lower_is_better(name)
    THEN Quotient(FloatOf(baseline), FloatOf(result))
    ELSE Quotient(FloatOf(result), FloatOf(baseline))

\* the 100.0 is not subtracted
Delta_ratio(speedup) == [n |-> speedup.n * 100, d |-> speedup.d]

\* delta = (speedup * 100.0) - 100.0
Delta(speedup) == [n |-> speedup.n * 100 - 100 * speedup.d, d |-> speedup.d]

\* color = RED if delta < 0 else GREEN if delta > 0 else ENDC
Color(delta) == IF delta.n < 0 THEN RED ELSE IF delta.n > 0 THEN GREEN ELSE ENDC

\* "{:.2f}".format(x): sign, integer part, two decimals, rounded to nearest
\* (ties to even)
Format2f(x) ==
    LET a   == IF x.n < 0 THEN 0 - x.n ELSE x.n
        q   == (100 * a) \div x.d
        rem == (100 * a) % x.d
        h   == IF 2 * rem > x.d \/ (2 * rem = x.d /\ q % 2 = 1)
               THEN q + 1 ELSE q
    IN  [neg |-> x.n < 0, whole |-> h \div 100, frac |-> h % 100]

\* get_delta(name, baseline, result): the exception raised, or the colored
\* text returned
get_delta(name, baseline, result) ==
    IF ~IsFloatLiteral(baseline) \/ ~IsFloatLiteral(result)
    THEN [exc |-> "ValueError"]
    ELSE IF Divisor(name, baseline, result).n = 0
    THEN [exc |-> "ZeroDivisionError"]
    ELSE LET delta == Delta(Speedup(name, baseline, result))
         IN  [exc |-> "none", color |-> Color(delta), text |-> Format2f(delta)]

-----------------------------------------------------------------------------
(* latency_analysis *)

\* list.sort() on a list of str
RECURSIVE Insert(_, _)
Insert(x, s) ==
    IF Len(s) = 0 THEN << x >>
    ELSE IF StrLess(x, Head(s)) THEN << x >> \o s
    ELSE << Head(s) >> \o Insert(x, Tail(s))

RECURSIVE ListSort(_)
ListSort(s) == IF Len(s) = 0 THEN << >> ELSE Insert(Head(s), ListSort(Tail(s)))

\* the keys of a dict in iteration order
KeySeq(d) == [i \in 1..Len(d) |-> d[i].k]

\* ordered_names without the sort
OrderedNames_unsorted(undertest_result) ==
    Append(SelectSeq(KeySeq(undertest_result),
                     LAMBDA n : n # CONCURRENCY /\ n # INFERPERSEC),
           INFERPERSEC)

\* ordered_names: lines 116-119
OrderedNames(undertest_result) ==
    Append(ListSort(SelectSeq(KeySeq(undertest_result),
                             LAMBDA n : n # CONCURRENCY /\ n # INFERPERSEC)),
           INFERPERSEC)

\* the baseline of whichever platform comes first
BaselineResult_first(base, platform) ==
    IF Len(base) > 0 THEN Some(base[1].v) ELSE None

\* baseline_result: lines 105-107
BaselineResult(base, platform) ==
    IF Has(base, platform) THEN Some(Get(base, platform)) ELSE None

\* the two header lines of a section: lines 102-103
SectionLines(platform, baseline_name, undertest_name) ==
    << [kind |-> "section", platform |-> platform],
       [kind |-> "columns", baseline |-> baseline_name,
        undertest |-> undertest_name] >>

\* the concurrency warning: lines 109-114
ConcurrencyWarning(baseline_result, undertest_result) ==
    IF /\ baseline_result # None
       /\ Has(baseline_result[1], CONCURRENCY)
       /\ Has(undertest_result, CONCURRENCY)
       /\ Get(baseline_result[1], CONCURRENCY)
              # Get(undertest_result, CONCURRENCY)
    THEN << [kind |-> "warning_concurrency",
             baseline |-> Get(baseline_result[1], CONCURRENCY),
             undertest |-> Get(undertest_result, CONCURRENCY)] >>
    ELSE << >>

\* the body of the loop over ordered_names: the exception raised, or the row
\* printed (delta is None on a row without one)
MetricRow(name, baseline_result, undertest_result) ==
    IF ~Has(undertest_result, name)
    THEN [exc |-> "KeyError"]
    ELSE LET result == Get(undertest_result, name)
         IN  IF baseline_result = None \/ ~Has(baseline_result[1], name)
             THEN [exc |-> "none",
                   row |-> [kind |-> "row",
                            name |-> name, baseline |-> NoneText,
                            result |-> result, delta |-> None]]
             ELSE LET b == Get(baseline_result[1], name)
                      d == get_delta(name, b, result)
                  IN  IF d.exc # "none"
                      THEN [exc |-> d.exc]
                      ELSE [exc |-> "none",
                            row |-> [kind |-> "row",
                                     name |-> name, baseline |-> b,
                                     result |-> result,
                                     delta |-> Some([color |-> d.color,
                                                     text |-> d.text])]]

-----------------------------------------------------------------------------
(* The process: __main__ calling read_results twice, then latency_analysis *)

Init ==
    /\ FLAGS \in FlagsSet
    /\ dirs \in [baseline : Listings(BaselineLibrary, MaxBaselineFiles),
                 undertest : Listings(Library, MaxFiles)]
    /\ pc = "main"
    /\ concurrency = -1
    /\ path = "baseline"
    /\ csvs = EmptyDict
    /\ fileIdx = 1
    /\ results = EmptyDict
    /\ baseline_results = EmptyDict
    /\ undertest_results = EmptyDict
    /\ platIdx = 1
    /\ ordered_names = << >>
    /\ nameIdx = 1
    /\ stdout = << >>
    /\ exc = "none"
    /\ args = None
    /\ ret = None

\* the concurrency __main__ asks for: line 156
MainConcurrency(flags) ==
    IF flags.concurrency = None THEN 1 ELSE flags.concurrency[1]

\* lines 155-157: with --latency, read_results(concurrency, FLAGS.baseline)
\* is called; without it the script ends
Main ==
    /\ pc = "main"
    /\ IF FLAGS.latency
       THEN /\ concurrency' = MainConcurrency(FLAGS)
            /\ path' = "baseline"
            /\ pc' = "read_results"
       ELSE /\ pc' = "done"
            /\ UNCHANGED <<concurrency, path>>
    /\ UNCHANGED <<FLAGS, dirs, csvs, fileIdx, results, baseline_results,
                   undertest_results, platIdx, ordered_names, nameIdx,
                   stdout, exc, args, ret>>

\* lines 44-51: the directory scan
RR_Listdir ==
    /\ pc = "read_results"
    /\ csvs' = ListCsvs(dirs[path], 1, EmptyDict)
    /\ results' = EmptyDict
    /\ fileIdx' = 1
    /\ pc' = "rr_file"
    /\ UNCHANGED <<FLAGS, dirs, concurrency, path, baseline_results,
                   undertest_results, platIdx, ordered_names, nameIdx,
                   stdout, exc, args, ret>>

\* lines 52-73: one iteration of the loop over csvs.items()
RR_File ==
    /\ pc = "rr_file"
    /\ fileIdx <= Len(csvs)
    /\ LET r == LoadFile(concurrency, path, dirs[path],
                         csvs[fileIdx].k, csvs[fileIdx].v, results)
       IN  /\ stdout' = stdout \o r.out
           /\ results' = r.results
           /\ exc' = r.exc
           /\ IF r.exc = "none"
              THEN fileIdx' = fileIdx + 1 /\ pc' = "rr_file"
              ELSE fileIdx' = fileIdx /\ pc' = "crashed"
    /\ UNCHANGED <<FLAGS, dirs, concurrency, path, csvs, baseline_results,
                   undertest_results, platIdx, ordered_names, nameIdx,
                   args, ret>>

\* line 75 and lines 157-159: the results go to the caller, which reads the
\* under-test directory next or starts latency_analysis
RR_Return ==
    /\ pc = "rr_file"
    /\ fileIdx > Len(csvs)
    /\ IF path = "baseline"
       THEN /\ baseline_results' = results
            /\ path' = "undertest"
            /\ pc' = "read_results"
            /\ UNCHANGED undertest_results
       ELSE /\ undertest_results' = results
            /\ pc' = "latency_analysis"
            /\ UNCHANGED <<baseline_results, path>>
    /\ platIdx' = 1
    /\ UNCHANGED <<FLAGS, dirs, concurrency, csvs, fileIdx, results,
                   ordered_names, nameIdx, stdout, exc, args, ret>>

\* lines 101-119: the head of a section
LA_Platform ==
    /\ pc = "latency_analysis"
    /\ platIdx <= Len(undertest_results)
    /\ LET platform         == undertest_results[platIdx].k
           undertest_result == undertest_results[platIdx].v
           baseline_result  == BaselineResult(baseline_results, platform)
       IN  /\ stdout' = stdout
                  \o SectionLines(platform, FLAGS.baseline_name,
                                  FLAGS.undertest_name)
                  \o ConcurrencyWarning(baseline_result, undertest_result)
           /\ ordered_names' = OrderedNames(undertest_result)
    /\ nameIdx' = 1
    /\ pc' = "la_row"
    /\ UNCHANGED <<FLAGS, dirs, concurrency, path, csvs, fileIdx, results,
                   baseline_results, undertest_results, platIdx, exc,
                   args, ret>>

\* lines 121-127: one metric row
LA_Row ==
    /\ pc = "la_row"
    /\ nameIdx <= Len(ordered_names)
    /\ LET platform == undertest_results[platIdx].k
           r == MetricRow(ordered_names[nameIdx],
                          BaselineResult(baseline_results, platform),
                          undertest_results[platIdx].v)
       IN  /\ exc' = r.exc
           /\ IF r.exc = "none"
              THEN /\ stdout' = Append(stdout, r.row)
                   /\ nameIdx' = nameIdx + 1
                   /\ pc' = "la_row"
              ELSE /\ pc' = "crashed"
                   /\ UNCHANGED <<stdout, nameIdx>>
    /\ UNCHANGED <<FLAGS, dirs, concurrency, path, csvs, fileIdx, results,
                   baseline_results, undertest_results, platIdx,
                   ordered_names, args, ret>>

\* the section is complete: back to line 101 for the next platform
LA_NextPlatform ==
    /\ pc = "la_row"
    /\ nameIdx > Len(ordered_names)
    /\ platIdx' = platIdx + 1
    /\ pc' = "latency_analysis"
    /\ UNCHANGED <<FLAGS, dirs, concurrency, path, csvs, fileIdx, results,
                   baseline_results, undertest_results, ordered_names,
                   nameIdx, stdout, exc, args, ret>>

\* latency_analysis returns and the script ends
LA_Return ==
    /\ pc = "latency_analysis"
    /\ platIdx > Len(undertest_results)
    /\ pc' = "done"
    /\ UNCHANGED <<FLAGS, dirs, concurrency, path, csvs, fileIdx, results,
                   baseline_results, undertest_results, platIdx,
                   ordered_names, nameIdx, stdout, exc, args, ret>>

Next ==
    \/ Main
    \/ RR_Listdir
    \/ RR_File
    \/ RR_Return
    \/ LA_Platform
    \/ LA_Row
    \/ LA_NextPlatform
    \/ LA_Return

Spec == Init /\ [][Next]_vars

-----------------------------------------------------------------------------
(* get_delta on its own: one call on numeric strings *)

\* digits the numeric strings are made of
DeltaDigits == {"0", "1", "2", "5", "8"}

\* the strings of 1..n digits
NumStrings(n) == UNION { [1..k -> DeltaDigits] : k \in 1..n }

DeltaNames == {LATENCY, MEMORY, CONCURRENCY, INFERPERSEC}

InitDelta ==
    /\ FLAGS \in {f \in FlagsSet : ~f.latency}
    /\ dirs = [baseline |-> << >>, undertest |-> << >>]
    /\ pc = "get_delta"
    /\ concurrency = -1
    /\ path = "baseline"
    /\ csvs = EmptyDict
    /\ fileIdx = 1
    /\ results = EmptyDict
    /\ baseline_results = EmptyDict
    /\ undertest_results = EmptyDict
    /\ platIdx = 1
    /\ ordered_names = << >>
    /\ nameIdx = 1
    /\ stdout = << >>
    /\ exc = "none"
    /\ args \in { Some([name |-> n, baseline |-> b, result |-> r]) :
                    n \in DeltaNames,
                    b \in NumStrings(MaxDigits), r \in NumStrings(MaxDigits) }
    /\ ret = None

\* get_delta(name, baseline, result) with the arguments drawn
CallDelta ==
    /\ pc = "get_delta"
    /\ ret' = Some(get_delta(args[1].name, args[1].baseline, args[1].result))
    /\ pc' = "returned"
    /\ UNCHANGED <<FLAGS, dirs, concurrency, path, csvs, fileIdx, results,
                   baseline_results, undertest_results, platIdx,
                   ordered_names, nameIdx, stdout, exc, args>>

NextDelta == CallDelta

SpecDelta == InitDelta /\ [][NextDelta]_vars

-----------------------------------------------------------------------------
(* Vocabulary of the properties *)

\* a < b and a = b for two floats
RatLess(a, b) == a.n * b.d < b.n * a.d

RatEq(a, b) == a.n * b.d = b.n * a.d

\* the rendered number in hundredths, with its sign
Hundredths(text) ==
    IF text.neg THEN 0 - (100 * text.whole + text.frac)
    ELSE 100 * text.whole + text.frac

Abs(x) == IF x < 0 THEN 0 - x ELSE x

\* text is num / den * 100 - 100 to two decimals: no further from it than
\* half a hundredth  (den # 0)
RendersSpeedup(text, num, den) ==
    2 * Abs(Hundredths(text) * den - 10000 * (num - den)) <= Abs(den)

ZeroText == [neg |-> FALSE, whole |-> 0, frac |-> 0]

\* the get_delta call has returned a text
DeltaReturned == pc = "returned" /\ ret # None /\ ret[1].exc = "none"

-----------------------------------------------------------------------------
(* C6: get_delta is directional.  For a positive baseline and a name other   *)
(* than "Inferences/Second", an under-test value below the baseline gives a  *)
(* positive delta (GREEN, no minus sign) and one above it a negative delta   *)
(* (RED); for "Inferences/Second" it is the other way round; and equal       *)
(* positive values give 0.00% for every name.                                *)
C6_Directional ==
    DeltaReturned =>
        LET name == args[1].name
            b    == FloatOf(args[1].baseline)
            r    == FloatOf(args[1].result)
            d    == ret[1]
        IN  (b.n > 0 /\ r.n > 0) =>
              /\ (name # INFERPERSEC /\ RatLess(r, b))
                     => d.color = GREEN /\ ~d.text.neg
              /\ (name # INFERPERSEC /\ RatLess(b, r))
                     => d.color = RED /\ d.text.neg
              /\ (name = INFERPERSEC /\ RatLess(b, r))
                     => d.color = GREEN /\ ~d.text.neg
              /\ (name = INFERPERSEC /\ RatLess(r, b))
                     => d.color = RED /\ d.text.neg
              /\ RatEq(b, r) => d.color = ENDC /\ d.text = ZeroText

\* "Inferences/Second" with an under-test value above the baseline has
\* returned
C6_Witness ==
    /\ DeltaReturned
    /\ args[1].name = INFERPERSEC
    /\ FloatOf(args[1].baseline).n > 0
    /\ RatLess(FloatOf(args[1].baseline), FloatOf(args[1].result))
    /\ ret[1].color = GREEN

-----------------------------------------------------------------------------
(* Vocabulary of the read_results properties *)

\* item k of csvs has been loaded without an exception
Processed(k) == pc = "rr_file" /\ k < fileIdx

\* read_results has met item k of csvs: it was loaded, or it raised
DealtWith(k) ==
    Processed(k) \/ (pc = "crashed" /\ fileIdx <= Len(csvs) /\ k = fileIdx)

RowsOf(k) == FileRows(dirs[path], csvs[k].v)

\* the first column of the row, read as an integer, is the concurrency
Matches(row) ==
    Len(row) > 0 /\ IsIntLiteral(row[1]) /\ IntOf(row[1]) = concurrency

HasMatch(rows) == Len(rows) >= 1 /\ \E i \in 2..Len(rows) : Matches(rows[i])

HeaderNoMatch(rows) == Len(rows) >= 1 /\ ~HasMatch(rows)

\* empty file, an empty data row, or a first column that is no integer
ParseProblem(rows) ==
    \/ Len(rows) = 0
    \/ \E i \in 2..Len(rows) : Len(rows[i]) = 0 \/ ~IsIntLiteral(rows[i][1])

\* a warning naming the file of item k has been printed
Warned(k) ==
    \E i \in 1..Len(stdout) :
        /\ stdout[i].kind = "warning_parse"
        /\ stdout[i].dir = path
        /\ stdout[i].file = csvs[k].v

\* the platform of item k has an empty metrics mapping
EmptyFor(k) ==
    Has(results, csvs[k].k) /\ Get(results, csvs[k].k) = EmptyDict

-----------------------------------------------------------------------------
(* C1: a file with a header row and no data row for the requested           *)
(* concurrency gets a warning naming it and an empty metrics mapping, and   *)
(* read_results goes on without raising.                                    *)
C1_NoMatchDegrades ==
    \A k \in 1..Len(csvs) :
        (DealtWith(k) /\ HeaderNoMatch(RowsOf(k)))
            => exc = "none" /\ Warned(k) /\ EmptyFor(k)

(* C2: read_results never raises on a per-file parse problem: an empty      *)
(* file, an empty data row or a non-integer first column gives the platform *)
(* an empty mapping and a warning, and the remaining files are loaded.      *)
C2_NeverRaises ==
    \A k \in 1..Len(csvs) :
        (DealtWith(k) /\ ParseProblem(RowsOf(k)))
            => exc = "none" /\ Warned(k) /\ EmptyFor(k)

-----------------------------------------------------------------------------
(* Vocabulary of C3 *)

\* read_results(concurrency, p) has returned; its value is ReturnedValue(p)
Returned(p) ==
    IF p = "baseline" THEN path = "undertest"
    ELSE \/ pc \in {"latency_analysis", "la_row"}
         \/ pc = "done" /\ FLAGS.latency
         \/ pc = "crashed" /\ path = "undertest" /\ fileIdx > Len(csvs)

ReturnedValue(p) ==
    IF p = "baseline" THEN baseline_results ELSE undertest_results

\* a regular file whose name has .csv as its last four characters
IsCsvFile(e) ==
    /\ e.isfile
    /\ Len(e.name) >= 4
    /\ \A i \in 1..4 : e.name[Len(e.name) - 4 + i] = CsvExt[i]

\* the part of the name before its first underscore (all of it without one)
PrefixBeforeUnderscore(name) ==
    LET us == {i \in 1..Len(name) : name[i] = "_"}
    IN  IF us = {} THEN name
        ELSE SubSeq(name, 1, (CHOOSE i \in us : \A j \in us : i <= j) - 1)

HasPrefix(e, key) == IsCsvFile(e) /\ PrefixBeforeUnderscore(e.name) = key

\* the last file of the listing with that prefix
LastFileOf(listing, key) ==
    listing[CHOOSE i \in 1..Len(listing) :
                /\ HasPrefix(listing[i], key)
                /\ \A j \in (i + 1)..Len(listing) : ~HasPrefix(listing[j], key)]

\* every item of the mapping is a header cell with a data cell of the same
\* column of these rows
BuiltFrom(d, rows) ==
    \A i \in 1..Len(d) :
        \E r \in 2..Len(rows), c \in 1..Len(rows[1]) :
            c <= Len(rows[r]) /\ rows[1][c] = d[i].k /\ rows[r][c] = d[i].v

(* C3: the keys of the mapping read_results returns are exactly the         *)
(* prefixes before the first underscore of the regular .csv files of the    *)
(* listing, one entry per prefix, built from the last file with the prefix. *)
C3_PlatformKeys ==
    \A p \in {"baseline", "undertest"} :
        Returned(p) =>
            LET R == ReturnedValue(p)
            IN  /\ Keys(R) = { PrefixBeforeUnderscore(dirs[p][i].name) :
                                 i \in {j \in 1..Len(dirs[p]) :
                                            IsCsvFile(dirs[p][j])} }
                /\ \A i, j \in 1..Len(R) : R[i].k = R[j].k => i = j
                /\ \A i \in 1..Len(R) :
                       BuiltFrom(R[i].v, LastFileOf(dirs[p], R[i].k).rows)

\* both calls have returned; the under-test directory had two .csv files
\* with one prefix, the baseline directory two with different prefixes
C3_Witness ==
    /\ Returned("undertest")
    /\ Len(dirs.undertest) = 2
    /\ IsCsvFile(dirs.undertest[1]) /\ IsCsvFile(dirs.undertest[2])
    /\ PrefixBeforeUnderscore(dirs.undertest[1].name)
           = PrefixBeforeUnderscore(dirs.undertest[2].name)
    /\ Len(undertest_results) = 1
    /\ Len(dirs.baseline) = 2
    /\ Len(baseline_results) = 2

-----------------------------------------------------------------------------
(* Vocabulary of C9 *)

\* the first data row that matches
FirstMatch(rows) ==
    rows[CHOOSE i \in 2..Len(rows) :
             Matches(rows[i]) /\ \A j \in 2..(i - 1) : ~Matches(rows[j])]

(* C9 as stated: the mapping of a loaded file is built from the first       *)
(* matching row, maps header[i] to row[i] for every i below the shorter     *)
(* length and has no other keys.                                            *)
C9_PairsEveryColumn ==
    \A k \in 1..Len(csvs) :
        (Processed(k) /\ HasMatch(RowsOf(k))) =>
            LET h == RowsOf(k)[1]
                m == FirstMatch(RowsOf(k))
                d == Get(results, csvs[k].k)
                n == Min(Len(h), Len(m))
            IN  /\ Keys(d) = {h[i] : i \in 1..n}
                /\ \A i \in 1..n : Get(d, h[i]) = m[i]

(* C9: the mapping of a loaded file is built from the first matching row:   *)
(* its keys are the header names below the shorter length, and each name    *)
(* maps to row[i] for the last such i at which the header has that name     *)
(* (header[i] to row[i] for every i when the header names are distinct).    *)
C9_PairsLastColumnOfName ==
    \A k \in 1..Len(csvs) :
        (Processed(k) /\ HasMatch(RowsOf(k))) =>
            LET h == RowsOf(k)[1]
                m == FirstMatch(RowsOf(k))
                d == Get(results, csvs[k].k)
                n == Min(Len(h), Len(m))
            IN  /\ Keys(d) = {h[i] : i \in 1..n}
                /\ \A i \in 1..n :
                       (\A j \in (i + 1)..n : h[j] # h[i])
                           => Get(d, h[i]) = m[i]

\* a file with two matching rows has been loaded, and so has, or is being,
\* one whose header is longer than its matching row
C9_Witness ==
    /\ \E k \in 1..Len(csvs) :
           /\ Processed(k)
           /\ Cardinality({i \in 2..Len(RowsOf(k)) : Matches(RowsOf(k)[i])}) > 1
    /\ \E k \in 1..Len(csvs) :
           /\ Processed(k)
           /\ HasMatch(RowsOf(k))
           /\ Len(RowsOf(k)[1]) # Len(FirstMatch(RowsOf(k)))

-----------------------------------------------------------------------------
(* Vocabulary of the latency_analysis properties *)

\* latency_analysis has been called: it is running, has returned or raised
InAnalysis ==
    \/ pc \in {"latency_analysis", "la_row"}
    \/ pc = "done" /\ FLAGS.latency
    \/ pc = "crashed" /\ path = "undertest" /\ fileIdx > Len(csvs)

\* the section line that line i of the output belongs to (0 before the first)
SectionOf(i) ==
    IF \E j \in 1..i : stdout[j].kind = "section"
    THEN CHOOSE j \in 1..i :
             /\ stdout[j].kind = "section"
             /\ \A l \in (j + 1)..i : stdout[l].kind # "section"
    ELSE 0

\* the metric names of the rows of the last section printed, in order
LastSectionNames ==
    LET rows == SelectSeq(SubSeq(stdout, SectionOf(Len(stdout)) + 1,
                                 Len(stdout)),
                          LAMBDA line : line.kind = "row")
    IN  [i \in 1..Len(rows) |-> rows[i].name]

\* the platforms of the section lines printed, in order
SectionPlatforms ==
    LET secs == SelectSeq(stdout, LAMBDA line : line.kind = "section")
    IN  [i \in 1..Len(secs) |-> secs[i].platform]

\* the loop over ordered_names of the last section has ended
SectionComplete == pc \in {"latency_analysis", "done"}

-----------------------------------------------------------------------------
(* C4: in every section the rows come in this order: the under-test metric  *)
(* names other than "Concurrency" and "Inferences/Second" ascending, then   *)
(* "Inferences/Second" last; "Concurrency" is never a row.  While a section *)
(* is being printed its rows are the beginning of that list, and a          *)
(* completed section has all of it.                                         *)
C4_RowOrder ==
    (InAnalysis /\ SectionOf(Len(stdout)) > 0) =>
        LET ur     == Get(undertest_results,
                          stdout[SectionOf(Len(stdout))].platform)
            names  == LastSectionNames
            others == Keys(ur) \ {CONCURRENCY, INFERPERSEC}
            shown  == {names[i] : i \in 1..Len(names)}
        IN  /\ CONCURRENCY \notin shown
            /\ shown \ {INFERPERSEC} \subseteq others
            /\ \A i \in 1..Len(names) :
                   names[i] = INFERPERSEC
                       => i = Len(names) /\ others \subseteq shown
            /\ \A i, j \in 1..Len(names) :
                   (i < j /\ names[j] # INFERPERSEC)
                       => StrLess(names[i], names[j])
            /\ \A m \in others \ shown :
                   \A i \in 1..Len(names) : StrLess(names[i], m)
            /\ SectionComplete
                   => /\ Len(names) = Cardinality(others) + 1
                      /\ names[Len(names)] = INFERPERSEC

\* the report has ended on a section of a platform with the metrics
\* Concurrency, Inferences/Second, Latency and Memory
C4_Witness ==
    /\ pc = "done" /\ FLAGS.latency
    /\ SectionOf(Len(stdout)) > 0
    /\ Keys(Get(undertest_results, stdout[SectionOf(Len(stdout))].platform))
           = {CONCURRENCY, INFERPERSEC, LATENCY, MEMORY}
    /\ LastSectionNames = << LATENCY, MEMORY, INFERPERSEC >>

-----------------------------------------------------------------------------
(* C5: the sections are those of the under-test platforms, in order and one *)
(* each, never one of a platform the baseline alone has; a row whose        *)
(* platform or metric the baseline lacks shows the name, "<none>" and the   *)
(* under-test value without a delta, and any other row shows the baseline   *)
(* value, the under-test value and a delta.                                 *)
C5_SectionsAndRows ==
    InAnalysis =>
        /\ Len(SectionPlatforms) <= Len(undertest_results)
        /\ SectionPlatforms
               = SubSeq(KeySeq(undertest_results), 1, Len(SectionPlatforms))
        /\ pc = "done" => Len(SectionPlatforms) = Len(undertest_results)
        /\ \A i \in 1..Len(stdout) :
               stdout[i].kind = "row" =>
                   LET row      == stdout[i]
                       platform == stdout[SectionOf(i)].platform
                       ur       == Get(undertest_results, platform)
                   IN  /\ Has(ur, row.name)
                       /\ row.result = Get(ur, row.name)
                       /\ IF /\ Has(baseline_results, platform)
                             /\ Has(Get(baseline_results, platform), row.name)
                          THEN /\ row.baseline
                                      = Get(Get(baseline_results, platform),
                                            row.name)
                               /\ row.delta # None
                          ELSE /\ row.baseline = NoneText
                               /\ row.delta = None

\* the report has ended; the baseline had a platform of its own, one it
\* shares with the under-test results and lacked another of theirs; rows
\* with and without a delta were printed for the shared platform
C5_Witness ==
    /\ pc = "done" /\ FLAGS.latency
    /\ Keys(baseline_results) \ Keys(undertest_results) # {}
    /\ Keys(undertest_results) \ Keys(baseline_results) # {}
    /\ \E i, j \in 1..Len(stdout) :
           /\ stdout[i].kind = "row" /\ stdout[i].delta # None
           /\ stdout[j].kind = "row" /\ stdout[j].delta = None
           /\ SectionOf(i) = SectionOf(j)

-----------------------------------------------------------------------------
(* C7: the delta of a row is baseline / undertest * 100 - 100, and          *)
(* undertest / baseline * 100 - 100 for "Inferences/Second", to two         *)
(* decimals; the gpu scenario (1,10,100 against 1,8,125 at concurrency 1)   *)
(* reports 25.00% as an improvement for Latency and for Inferences/Second.  *)
C7_DeltaFormula ==
    /\ \A i \in 1..Len(stdout) :
           (stdout[i].kind = "row" /\ stdout[i].delta # None) =>
               LET b == FloatOf(stdout[i].baseline)
                   r == FloatOf(stdout[i].result)
                   t == stdout[i].delta[1].text
               IN  IF stdout[i].name # INFERPERSEC
                   THEN RendersSpeedup(t, b.n * r.d, b.d * r.n)
                   ELSE RendersSpeedup(t, r.n * b.d, r.d * b.n)
    /\ ( /\ pc = "done"
         /\ FLAGS.latency /\ FLAGS.concurrency = Some(1)
         /\ dirs.baseline = << BaselineGpu >>
         /\ dirs.undertest = << UndertestGpu >> )
       => /\ Len(stdout) = 4
          /\ stdout[1].kind = "section"
          /\ stdout[1].platform = << "g", "p", "u" >>
          /\ stdout[3].kind = "row" /\ stdout[3].name = LATENCY
          /\ stdout[3].delta
                 = Some([color |-> GREEN,
                         text |-> [neg |-> FALSE, whole |-> 25, frac |-> 0]])
          /\ stdout[4].kind = "row" /\ stdout[4].name = INFERPERSEC
          /\ stdout[4].delta
                 = Some([color |-> GREEN,
                         text |-> [neg |-> FALSE, whole |-> 25, frac |-> 0]])

\* the scenario has run to its end
C7_Witness ==
    /\ pc = "done"
    /\ FLAGS.latency /\ FLAGS.concurrency = Some(1)
    /\ dirs.baseline = << BaselineGpu >>
    /\ dirs.undertest = << UndertestGpu >>
    /\ Len(stdout) = 4

-----------------------------------------------------------------------------
\* a value that is zero or that float() rejects
BadValue(v) == ~IsFloatLiteral(v) \/ FloatOf(v).n = 0

(* C8: a zero or non-numeric baseline or under-test value in a metric row   *)
(* does not abort the report: latency_analysis does not raise on the row.   *)
C8_BadValueDoesNotAbort ==
    (InAnalysis /\ pc \in {"la_row", "crashed"}
                /\ nameIdx <= Len(ordered_names)) =>
        LET name == ordered_names[nameIdx]
            ur   == undertest_results[platIdx].v
            br   == BaselineResult(baseline_results,
                                   undertest_results[platIdx].k)
        IN  ( /\ Has(ur, name)
              /\ br # None
              /\ Has(br[1], name)
              /\ BadValue(Get(br[1], name)) \/ BadValue(Get(ur, name)) )
            => pc # "crashed"

(* C10: latency_analysis runs to completion on every under-test mapping     *)
(* read_results can return, also when a platform's mapping is empty or has  *)
(* no "Inferences/Second": it never looks a name up that the mapping lacks. *)
C10_RunsToCompletion ==
    InAnalysis =>
        /\ exc # "KeyError"
        /\ \A i \in 1..Len(undertest_results) :
               ~Has(undertest_results[i].v, INFERPERSEC)
                   => ~(pc = "crashed" /\ platIdx = i)

====
